---- MODULE Spec2Model ----
(***************************************************************************)
(* A model of the Biryani Club ordering application: pricing, promotions,  *)
(* the cart, checkout, the order / delivery lifecycle and loyalty points.  *)
(*                                                                         *)
(* Money.  The program keeps money in floats of rupees.  The model keeps   *)
(* money as an integer number of paise (1 rupee = 100 paise).  Subtotals   *)
(* are multiples of 10 paise and percentages multiples of 10, so that      *)
(* subtotal * (value / 100) is a whole number of paise and the model's     *)
(* integer arithmetic is exact.  Float rounding is not modelled.           *)
(*                                                                         *)
(* None.  A nullable column is a sequence of length at most one: << >> is  *)
(* None and <<v>> is the value v.                                          *)
(***************************************************************************)
EXTENDS Integers, Sequences, FiniteSets, TLC

VARIABLES
    now,             \* the clock read by get_ist_now()
    store_open,      \* StoreSettings 'store_open'
    menu,            \* MenuItem rows: item -> [price, in_stock]
    cart,            \* CartItem rows: user -> item -> quantity (0: no row)
    promotions,      \* Promotion rows: code -> << >> (no row) or <<row>>
    orders,          \* Order rows, in order of creation
    loyalty_points,  \* User.loyalty_points of the customers
    loyalty_tier,    \* User.loyalty_tier of the customers: the stored label
    req,             \* requests in flight: process -> position and locals
    input,           \* arguments of a direct call of a pure function
    output           \* the result of that call

vars == <<now, store_open, menu, cart, promotions, orders, loyalty_points,
          loyalty_tier,
          req, input, output>>

-----------------------------------------------------------------------------
(* Values *)

None == << >>
Some(v) == <<v>>
IsNone(x) == x = << >>
Val(x) == x[1]

\* Python truthiness of a nullable number: None and 0 are falsy.
Truthy(x) == x # << >> /\ x[1] # 0

Rs(x) == x * 100

\* No direct call has been made.
NoCall == [fn |-> "none", value |-> 0]

Min(a, b) == IF a <= b THEN a ELSE b

-----------------------------------------------------------------------------
(* Bounds of the model *)

MaxNow == 1        \* the clock stops here
MaxUsed == 2       \* no coupon is used beyond this count
MaxOrders == 1     \* no checkout beyond this many orders
MaxCredits == 2    \* no delivery completion of an order credited this often

-----------------------------------------------------------------------------
(* utils.py: calculate_delivery_charges *)

calculate_delivery_chargesOff(subtotal) ==
    IF subtotal >= Rs(200) THEN 0
    ELSE IF subtotal > Rs(150) THEN Rs(15)
    ELSE IF subtotal >= Rs(100) THEN Rs(25)
    ELSE Rs(25)

calculate_delivery_charges(subtotal) ==
    IF subtotal >= Rs(200) THEN 0
    ELSE IF subtotal >= Rs(150) THEN Rs(15)
    ELSE IF subtotal >= Rs(100) THEN Rs(25)
    ELSE Rs(25)

-----------------------------------------------------------------------------
(* models.py: Promotion *)

\* is_expired: `if self.expires_at:` is true of every datetime.
is_expired(p, t) ==
    IF ~IsNone(p.expires_at) THEN t > Val(p.expires_at) ELSE FALSE

\* is_usage_exceeded: `if self.usage_limit:` is false of None and of 0.
is_usage_exceeded(p) ==
    IF Truthy(p.usage_limit) THEN p.used_count >= Val(p.usage_limit) ELSE FALSE

is_valid(p, t) ==
    p.is_active /\ ~is_expired(p, t) /\ ~is_usage_exceeded(p)

calculate_discountNoClamp(p, subtotal, t) ==
    IF ~is_valid(p, t) \/ subtotal < p.min_order_amount THEN 0
    ELSE IF p.discount_type = "percentage"
         THEN LET discount == (subtotal * p.discount_value) \div 100
              IN  IF Truthy(p.max_discount)
                  THEN Min(discount, Val(p.max_discount))
                  ELSE discount
         ELSE p.discount_value

\* calculate_discount: `if self.max_discount:` is false of None and of 0.
calculate_discount(p, subtotal, t) ==
    IF ~is_valid(p, t) \/ subtotal < p.min_order_amount THEN 0
    ELSE IF p.discount_type = "percentage"
         THEN LET discount == (subtotal * p.discount_value) \div 100
              IN  IF Truthy(p.max_discount)
                  THEN Min(discount, Val(p.max_discount))
                  ELSE discount
         ELSE Min(p.discount_value, subtotal)

-----------------------------------------------------------------------------
(* The actors and the rows *)

\* User ids.  The session gives every request its actor; an anonymous
\* request has no user_id.
Customers == {1, 2}
DeliveryPersons == {11, 12}
Items == {1}
Codes == {"BIRYANI20"}
Statuses ==
    {"pending", "confirmed", "preparing", "out_for_delivery", "delivered",
     "cancelled"}

RECURSIVE SumOver(_, _)
SumOver(S, f) ==
    IF S = {} THEN 0
    ELSE LET x == CHOOSE y \in S : TRUE
         IN  f[x] + SumOver(S \ {x}, f)

EmptyCart == [i \in Items |-> 0]

\* The rows of a cart joined with the menu: quantity, the item's current
\* price and CartItem.total.
CartRows(quantity, items) ==
    [i \in Items |->
        [quantity |-> quantity[i],
         price    |-> items[i].price,
         total    |-> quantity[i] * items[i].price]]

\* get_cart_items: the rows of the user's cart; no rows without a user.
get_cart_items(user_id) ==
    CartRows(IF Truthy(user_id) THEN cart[Val(user_id)] ELSE EmptyCart, menu)

CartIsEmpty(cart_items) == \A i \in Items : cart_items[i].quantity = 0

CartSubtotal(cart_items) ==
    SumOver({i \in Items : cart_items[i].quantity > 0},
            [i \in Items |-> cart_items[i].total])

\* use_promotion: used_count += 1 on the value this request loaded, then
\* commit.
use_promotion(promos, code, loaded_count) ==
    IF IsNone(promos[code]) THEN promos
    ELSE [promos EXCEPT
            ![code] = Some([Val(@) EXCEPT !.used_count = loaded_count + 1])]

-----------------------------------------------------------------------------
(* routes.py: the cart *)

add_to_cart(u, i, quantity) ==
    /\ cart' =
         IF ~store_open THEN cart
         ELSE IF quantity < 1 \/ quantity > 10 THEN cart
         ELSE IF ~menu[i].in_stock THEN cart
         ELSE IF cart[u][i] > 0
              THEN [cart EXCEPT ![u][i] = Min(@ + quantity, 10)]
              ELSE [cart EXCEPT ![u][i] = quantity]
    /\ UNCHANGED <<now, store_open, menu, promotions, orders, loyalty_points, loyalty_tier,
                   req, input, output>>

update_cartNoCap(u, i, quantity) ==
    /\ cart' =
         IF cart[u][i] > 0
         THEN IF quantity <= 0
              THEN [cart EXCEPT ![u][i] = 0]
              ELSE [cart EXCEPT ![u][i] = quantity]
         ELSE cart
    /\ UNCHANGED <<now, store_open, menu, promotions, orders, loyalty_points,
                   loyalty_tier, req, input, output>>

update_cart(u, i, quantity) ==
    /\ cart' =
         IF cart[u][i] > 0
         THEN IF quantity <= 0
              THEN [cart EXCEPT ![u][i] = 0]
              ELSE [cart EXCEPT ![u][i] = Min(quantity, 10)]
         ELSE cart
    /\ UNCHANGED <<now, store_open, menu, promotions, orders, loyalty_points, loyalty_tier,
                   req, input, output>>

clear_cart(u) ==
    /\ cart' = [cart EXCEPT ![u] = EmptyCart]
    /\ UNCHANGED <<now, store_open, menu, promotions, orders, loyalty_points, loyalty_tier,
                   req, input, output>>

-----------------------------------------------------------------------------
(* routes.py: the admin's store, menu and promotions *)

toggle_store ==
    /\ store_open' = ~store_open
    /\ UNCHANGED <<now, menu, cart, promotions, orders, loyalty_points, loyalty_tier,
                   req, input, output>>

edit_menu_itemReprices(i, price) ==
    /\ menu' = [menu EXCEPT ![i].price = price]
    /\ orders' = [id \in DOMAIN orders |->
                    [orders[id] EXCEPT !.order_items[i].unit_price = price]]
    /\ UNCHANGED <<now, store_open, cart, promotions, loyalty_points, loyalty_tier,
                   req, input, output>>

edit_menu_item(i, price) ==
    /\ menu' = [menu EXCEPT ![i].price = price]
    /\ UNCHANGED <<now, store_open, cart, promotions, orders, loyalty_points, loyalty_tier,
                   req, input, output>>

toggle_menu_item_stock(i) ==
    /\ menu' = [menu EXCEPT ![i].in_stock = ~@]
    /\ UNCHANGED <<now, store_open, cart, promotions, orders, loyalty_points, loyalty_tier,
                   req, input, output>>

\* The fields a promotion form sets.  An empty max_discount, usage_limit or
\* expires_at field is None; '0' is the number 0.
FormRow(form, used_count, is_active) ==
    [discount_type    |-> form.discount_type,
     discount_value   |-> form.discount_value,
     min_order_amount |-> form.min_order_amount,
     max_discount     |-> form.max_discount,
     usage_limit      |-> form.usage_limit,
     used_count       |-> used_count,
     is_active        |-> is_active,
     expires_at       |-> form.expires_at]

add_promotion(code, form) ==
    /\ promotions' =
         IF ~IsNone(promotions[code]) THEN promotions
         ELSE [promotions EXCEPT ![code] = Some(FormRow(form, 0, TRUE))]
    /\ UNCHANGED <<now, store_open, menu, cart, orders, loyalty_points, loyalty_tier,
                   req, input, output>>

edit_promotionResets(code, form) ==
    /\ ~IsNone(promotions[code])
    /\ promotions' =
         [promotions EXCEPT
            ![code] = Some(FormRow(form, 0, Val(@).is_active))]
    /\ UNCHANGED <<now, store_open, menu, cart, orders, loyalty_points,
                   loyalty_tier, req, input, output>>

edit_promotion(code, form) ==
    /\ ~IsNone(promotions[code])
    /\ promotions' =
         [promotions EXCEPT
            ![code] = Some(FormRow(form, Val(@).used_count, Val(@).is_active))]
    /\ UNCHANGED <<now, store_open, menu, cart, orders, loyalty_points, loyalty_tier,
                   req, input, output>>

toggle_promotion_status(code) ==
    /\ ~IsNone(promotions[code])
    /\ promotions' =
         [promotions EXCEPT
            ![code] = Some([Val(@) EXCEPT !.is_active = ~@])]
    /\ UNCHANGED <<now, store_open, menu, cart, orders, loyalty_points, loyalty_tier,
                   req, input, output>>

delete_promotion(code) ==
    /\ ~IsNone(promotions[code])
    /\ promotions' = [promotions EXCEPT ![code] = None]
    /\ UNCHANGED <<now, store_open, menu, cart, orders, loyalty_points, loyalty_tier,
                   req, input, output>>

Tick ==
    /\ now < MaxNow
    /\ now' = now + 1
    /\ UNCHANGED <<store_open, menu, cart, promotions, orders, loyalty_points, loyalty_tier,
                   req, input, output>>

-----------------------------------------------------------------------------
(* routes.py: process_checkout *)

Lookup(promos, code) == IF code \in Codes THEN promos[code] ELSE None

\* What process_checkout holds once it has read the cart and the coupon:
\* the cart rows, the totals, the promotion row as loaded, and whether the
\* coupon passed `promotion and promotion.is_valid and subtotal >= min`.
Locals(cart_items, promotion, coupon_code, t) ==
    LET subtotal   == CartSubtotal(cart_items)
        accepted   == /\ coupon_code # ""
                      /\ ~IsNone(promotion)
                      /\ is_valid(Val(promotion), t)
                      /\ subtotal >= Val(promotion).min_order_amount
    IN  [cart_items       |-> cart_items,
         subtotal         |-> subtotal,
         delivery_charges |-> calculate_delivery_charges(subtotal),
         accepted         |-> accepted,
         loaded_count     |-> IF accepted THEN Val(promotion).used_count ELSE 0,
         discount         |-> IF accepted
                              THEN calculate_discount(Val(promotion), subtotal, t)
                              ELSE 0]

CheckoutLocals(user_id, coupon_code) ==
    Locals(get_cart_items(user_id), Lookup(promotions, coupon_code),
           coupon_code, now)

OrderTotalNoDiscount(subtotal, delivery_charges, discount) ==
    subtotal + delivery_charges

OrderTotal(subtotal, delivery_charges, discount) ==
    subtotal + delivery_charges - discount

\* The Order row and its OrderItem rows as process_checkout inserts them.
\* order_number is not kept: only whether the random draw repeats an
\* existing number matters, and then no row is inserted.  credited is not a
\* column: it counts the loyalty credits made for the order.
NewOrder(user_id, L, payment_method, coupon_code) ==
    [user_id            |-> user_id,
     guest_name         |-> IF Truthy(user_id) THEN None ELSE Some("name"),
     subtotal           |-> L.subtotal,
     delivery_charges   |-> L.delivery_charges,
     discount           |-> L.discount,
     total_amount       |-> OrderTotal(L.subtotal, L.delivery_charges, L.discount),
     payment_method     |-> payment_method,
     payment_status     |-> "pending",
     coupon_code        |-> IF coupon_code # "" THEN Some(coupon_code) ELSE None,
     status             |-> "pending",
     confirmed_at       |-> None,
     delivery_time      |-> None,
     delivery_person_id |-> None,
     order_items        |-> [i \in Items |->
                               [quantity    |-> L.cart_items[i].quantity,
                                unit_price  |-> L.cart_items[i].price,
                                total_price |-> L.cart_items[i].total]],
     credited           |-> 0]

\* Cash on delivery: the payment is marked confirmed right after the commit.
MarkConfirmed(order, t) ==
    [order EXCEPT !.payment_status = "confirmed", !.confirmed_at = Some(t)]

\* The whole handler, run alone.  form_ok: the name, phone and address are
\* filled in and the phone is valid.  collides: generate_order_number drew
\* a number an order already has, the insert fails and the session is rolled
\* back; the coupon use was committed before.
process_checkout(user_id, form_ok, payment_method, coupon_code, collides) ==
    LET L        == CheckoutLocals(user_id, coupon_code)
        proceeds == /\ store_open
                    /\ form_ok
                    /\ ~CartIsEmpty(L.cart_items)
                    /\ (coupon_code # "" => L.accepted)
        inserted == proceeds /\ ~(collides /\ Len(orders) > 0)
        order    == NewOrder(user_id, L, payment_method, coupon_code)
    IN  /\ promotions' =
             IF proceeds /\ L.accepted
             THEN use_promotion(promotions, coupon_code, L.loaded_count)
             ELSE promotions
        /\ orders' =
             IF inserted
             THEN Append(orders, IF payment_method = "upi"
                                 THEN order
                                 ELSE MarkConfirmed(order, now))
             ELSE orders
        /\ cart' =
             IF inserted /\ Truthy(user_id)
             THEN [cart EXCEPT ![Val(user_id)] = EmptyCart]
             ELSE cart
        /\ UNCHANGED <<now, store_open, menu, loyalty_points, loyalty_tier, req, input,
                       output>>

-----------------------------------------------------------------------------
(* routes.py: payment, the admin's status update and the delivery actors *)

OrderIds == 1..Len(orders)

confirm_paymentAdvances(id) ==
    /\ id \in OrderIds
    /\ orders' = [orders EXCEPT
                    ![id] = [MarkConfirmed(@, now) EXCEPT !.status = "confirmed"]]
    /\ UNCHANGED <<now, store_open, menu, cart, promotions, loyalty_points,
                   loyalty_tier, req, input, output>>

confirm_payment(id) ==
    /\ id \in OrderIds
    /\ orders' = [orders EXCEPT ![id] = MarkConfirmed(@, now)]
    /\ UNCHANGED <<now, store_open, menu, cart, promotions, loyalty_points, loyalty_tier,
                   req, input, output>>

update_order_status(id, new_status) ==
    /\ id \in OrderIds
    /\ orders' =
         [orders EXCEPT
            ![id] = [@ EXCEPT
                       !.status = new_status,
                       !.delivery_time = IF new_status = "delivered"
                                         THEN Some(now) ELSE @]]
    /\ UNCHANGED <<now, store_open, menu, cart, promotions, loyalty_points, loyalty_tier,
                   req, input, output>>

assign_orderOverwrites(d, id) ==
    /\ id \in OrderIds
    /\ orders' =
         [orders EXCEPT
            ![id] = [@ EXCEPT
                       !.delivery_person_id = Some(d),
                       !.status = IF @ = "confirmed" THEN "preparing"
                                  ELSE @]]
    /\ UNCHANGED <<now, store_open, menu, cart, promotions, loyalty_points,
                   loyalty_tier, req, input, output>>

\* `if order.delivery_person_id:` is false of None (user ids are not 0).
assign_order(d, id) ==
    /\ id \in OrderIds
    /\ orders' =
         IF Truthy(orders[id].delivery_person_id) THEN orders
         ELSE [orders EXCEPT
                 ![id] = [@ EXCEPT
                            !.delivery_person_id = Some(d),
                            !.status = IF @ = "confirmed" THEN "preparing"
                                       ELSE @]]
    /\ UNCHANGED <<now, store_open, menu, cart, promotions, loyalty_points, loyalty_tier,
                   req, input, output>>

pickup_orderAnyone(d, id) ==
    /\ id \in OrderIds
    /\ orders' = [orders EXCEPT ![id].status = "out_for_delivery"]
    /\ UNCHANGED <<now, store_open, menu, cart, promotions, loyalty_points,
                   loyalty_tier, req, input, output>>

pickup_order(d, id) ==
    /\ id \in OrderIds
    /\ orders' =
         IF orders[id].delivery_person_id # Some(d) THEN orders
         ELSE [orders EXCEPT ![id].status = "out_for_delivery"]
    /\ UNCHANGED <<now, store_open, menu, cart, promotions, loyalty_points, loyalty_tier,
                   req, input, output>>

\* int(order.total_amount // 10), in rupees: the floor of a tenth.
points_earned(total_amount) == total_amount \div Rs(10)

complete_deliveryKeepsPayment(d, id) ==
    LET order    == orders[id]
        assigned == order.delivery_person_id = Some(d)
        credits  == assigned /\ Truthy(order.user_id)
    IN  /\ id \in OrderIds
        /\ orders' =
             IF ~assigned THEN orders
             ELSE [orders EXCEPT
                     ![id] = [@ EXCEPT
                                !.status = "delivered",
                                !.delivery_time = Some(now),
                                !.credited = IF credits THEN @ + 1 ELSE @]]
        /\ loyalty_points' =
             IF credits
             THEN [loyalty_points EXCEPT
                     ![Val(order.user_id)] = @ + points_earned(order.total_amount)]
             ELSE loyalty_points
        /\ UNCHANGED <<now, store_open, menu, cart, promotions, loyalty_tier,
                       req, input, output>>

complete_delivery(d, id) ==
    LET order    == orders[id]
        assigned == order.delivery_person_id = Some(d)
        credits  == assigned /\ Truthy(order.user_id)
    IN  /\ id \in OrderIds
        /\ orders' =
             IF ~assigned THEN orders
             ELSE [orders EXCEPT
                     ![id] = [@ EXCEPT
                                !.status = "delivered",
                                !.delivery_time = Some(now),
                                !.payment_status = "confirmed",
                                !.credited = IF credits THEN @ + 1 ELSE @]]
        /\ loyalty_points' =
             IF credits
             THEN [loyalty_points EXCEPT
                     ![Val(order.user_id)] = @ + points_earned(order.total_amount)]
             ELSE loyalty_points
        /\ UNCHANGED <<now, store_open, menu, cart, promotions, loyalty_tier, req, input,
                       output>>

-----------------------------------------------------------------------------
(* The application, one request at a time: Spec *)

\* The seeded BIRYANI20: 20 percent off from 200, at most 150, 100 uses.
SeedPromotion ==
    [discount_type    |-> "percentage",
     discount_value   |-> 20,
     min_order_amount |-> Rs(200),
     max_discount     |-> Some(Rs(150)),
     usage_limit      |-> Some(100),
     used_count       |-> 0,
     is_active        |-> TRUE,
     expires_at       |-> None]

InitApp ==
    /\ now = 0
    /\ store_open = TRUE
    /\ menu = [i \in Items |-> [price |-> Rs(99), in_stock |-> TRUE]]
    /\ cart = [u \in Customers |-> EmptyCart]
    /\ promotions = [c \in Codes |-> Some(SeedPromotion)]
    /\ orders = << >>
    /\ loyalty_points = [u \in Customers |-> 0]
    /\ loyalty_tier = [u \in Customers |-> "bronze"]
    /\ req = << >>
    /\ input = << >>
    /\ output = NoCall

\* The requests of Spec.  One customer shops; the admin edits the store,
\* the menu and the promotion; two delivery persons work the orders.
AppCustomers == {1}
AppQuantities == {0, 10, 11}
AppPrices == {Rs(15), Rs(99)}
AppCoupons == Codes \cup {""}
AppMethods == {"cash", "upi"}

\* Checkout requests: the customer's, with a valid form; one with a form
\* that fails validation; one of an anonymous visitor.
AppCheckouts ==
    [user_id : {Some(u) : u \in AppCustomers}, form_ok : {TRUE},
     payment_method : AppMethods, coupon_code : AppCoupons,
     collides : BOOLEAN]
    \cup
    [user_id : {Some(u) : u \in AppCustomers}, form_ok : {FALSE},
     payment_method : {"cash"}, coupon_code : {""}, collides : {FALSE}]
    \cup
    [user_id : {None}, form_ok : {TRUE},
     payment_method : {"cash"}, coupon_code : {""}, collides : {FALSE}]

\* The form the admin submits: a fixed 50 off, no minimum, one use.
AppForms ==
    {[discount_type    |-> "fixed",
      discount_value   |-> Rs(50),
      min_order_amount |-> 0,
      max_discount     |-> None,
      usage_limit      |-> Some(1),
      expires_at       |-> None]}

\* The bounds: a checkout inserts no order beyond max_orders and uses no
\* coupon beyond MaxUsed; no completion of an order credited MaxCredits times.
CheckoutWithin(r, max_orders) ==
    /\ Len(orders) < max_orders \/ (r.collides /\ Len(orders) > 0)
    /\ ~IsNone(Lookup(promotions, r.coupon_code)) =>
           Val(Lookup(promotions, r.coupon_code)).used_count < MaxUsed

CompletionWithin(id) ==
    id \in OrderIds /\ orders[id].credited < MaxCredits

Next ==
    \/ \E u \in AppCustomers, i \in Items, q \in AppQuantities :
          add_to_cart(u, i, q)
    \/ \E u \in AppCustomers, i \in Items, q \in AppQuantities :
          update_cart(u, i, q)
    \/ \E u \in AppCustomers : clear_cart(u)
    \/ toggle_store
    \/ \E i \in Items, price \in AppPrices : edit_menu_item(i, price)
    \/ \E i \in Items : toggle_menu_item_stock(i)
    \/ \E code \in Codes, form \in AppForms : add_promotion(code, form)
    \/ \E code \in Codes, form \in AppForms : edit_promotion(code, form)
    \/ \E code \in Codes : toggle_promotion_status(code)
    \/ \E code \in Codes : delete_promotion(code)
    \/ \E r \in AppCheckouts :
          /\ CheckoutWithin(r, MaxOrders)
          /\ process_checkout(r.user_id, r.form_ok, r.payment_method,
                              r.coupon_code, r.collides)
    \/ \E id \in 1..MaxOrders : confirm_payment(id)
    \/ \E id \in 1..MaxOrders, s \in Statuses : update_order_status(id, s)
    \/ \E id \in 1..MaxOrders, d \in DeliveryPersons : assign_order(d, id)
    \/ \E id \in 1..MaxOrders, d \in DeliveryPersons : pickup_order(d, id)
    \/ \E id \in 1..MaxOrders, d \in DeliveryPersons :
          CompletionWithin(id) /\ complete_delivery(d, id)

Spec == InitApp /\ [][Next]_vars

\* C2: every order, when process_checkout has created it and after every
\* later request, has total_amount = subtotal + delivery_charges - discount.
C2_TotalInvariant ==
    \A id \in OrderIds :
        orders[id].total_amount =
            orders[id].subtotal + orders[id].delivery_charges - orders[id].discount

C2_Witness ==
    \E id \in OrderIds :
        /\ orders[id].discount > 0
        /\ orders[id].delivery_charges > 0
        /\ orders[id].status = "delivered"
        /\ orders[id].credited > 0

\* C10: an order of a registered user is credited loyalty points exactly
\* once, when it becomes delivered: never twice, and never not at all once
\* it is delivered.
C10_CreditedOnce ==
    \A id \in OrderIds :
        Truthy(orders[id].user_id) =>
            /\ orders[id].credited <= 1
            /\ orders[id].status = "delivered" => orders[id].credited = 1

\* C11: assign_order sets delivery_person_id only on an unassigned order
\* whose status is confirmed or preparing; it sets it to the claiming actor,
\* moves confirmed to preparing and leaves every other status as it is.
C11_AssignGuard ==
    [][\A d \in DeliveryPersons, id \in OrderIds :
         (/\ assign_order(d, id)
          /\ orders'[id].delivery_person_id # orders[id].delivery_person_id)
         => /\ IsNone(orders[id].delivery_person_id)
            /\ orders[id].status \in {"confirmed", "preparing"}
            /\ orders'[id].delivery_person_id = Some(d)
            /\ orders'[id].status = IF orders[id].status = "confirmed"
                                    THEN "preparing" ELSE orders[id].status]_vars

\* C12: a status change made by pickup_order goes to out_for_delivery from
\* preparing or confirmed, and one made by complete_delivery goes to
\* delivered from out_for_delivery; so no delivery actor changes the status
\* of a delivered, pending or cancelled order.
C12_LifecycleEdges ==
    [][\A d \in DeliveryPersons, id \in OrderIds :
         /\ (pickup_order(d, id) /\ orders'[id].status # orders[id].status)
            => /\ orders[id].status \in {"preparing", "confirmed"}
               /\ orders'[id].status = "out_for_delivery"
         /\ (complete_delivery(d, id) /\ orders'[id].status # orders[id].status)
            => /\ orders[id].status = "out_for_delivery"
               /\ orders'[id].status = "delivered"]_vars

\* C13: pickup_order and complete_delivery by an actor who is not the
\* order's delivery person (the order may be unassigned) change nothing of
\* the order and no user's loyalty points.
C13_NotAssignedRejected ==
    [][\A d \in DeliveryPersons, id \in OrderIds :
         (/\ orders[id].delivery_person_id # Some(d)
          /\ (pickup_order(d, id) \/ complete_delivery(d, id)))
         => /\ orders'[id] = orders[id]
            /\ loyalty_points' = loyalty_points]_vars

\* An order assigned to one actor and still on its way: the other actor's
\* pickup_order and complete_delivery meet the rejection.
C13_Witness ==
    \E id \in OrderIds, d \in DeliveryPersons :
        /\ orders[id].delivery_person_id = Some(d)
        /\ DeliveryPersons \ {d} # {}
        /\ orders[id].status \in {"preparing", "out_for_delivery"}

\* C14: complete_delivery by the order's delivery person leaves the order
\* delivered, with delivery_time set and payment_status confirmed, whatever
\* they were, and adds floor(total_amount / 10) to the balance of the
\* order's registered user; with no registered user no balance changes.
C14_CompleteEffects ==
    [][\A d \in DeliveryPersons, id \in OrderIds :
         (/\ orders[id].delivery_person_id = Some(d)
          /\ complete_delivery(d, id))
         => /\ orders'[id].status = "delivered"
            /\ orders'[id].delivery_time # None
            /\ orders'[id].payment_status = "confirmed"
            /\ loyalty_points' =
                 IF Truthy(orders[id].user_id)
                 THEN [loyalty_points EXCEPT
                         ![Val(orders[id].user_id)] =
                             @ + (orders[id].total_amount \div 1000)]
                 ELSE loyalty_points]_vars

\* A UPI order nobody confirmed the payment of, delivered and credited.
C14_Witness ==
    \E id \in OrderIds :
        /\ orders[id].payment_method = "upi"
        /\ orders[id].confirmed_at = None
        /\ orders[id].status = "delivered"
        /\ orders[id].payment_status = "confirmed"
        /\ orders[id].credited = 1
        /\ loyalty_points[Val(orders[id].user_id)] > 0

\* C18: an order created by a cash checkout has status pending, payment_status
\* confirmed and confirmed_at set when process_checkout has finished, and its
\* status stays pending until an admin's update_order_status changes it.
C18_CashOrder ==
    [][/\ \A id \in (1..Len(orders')) \ OrderIds :
            orders'[id].payment_method = "cash"
            => /\ orders'[id].status = "pending"
               /\ orders'[id].payment_status = "confirmed"
               /\ orders'[id].confirmed_at # None
       /\ \A id \in OrderIds :
            (/\ orders[id].payment_method = "cash"
             /\ orders[id].status = "pending"
             /\ orders'[id].status # "pending")
            => \E s \in Statuses : update_order_status(id, s)]_vars

\* C19 as claimed: a UPI order keeps payment_status pending until
\* confirm_payment for that order sets payment_status confirmed and
\* confirmed_at; creation and confirm_payment leave the status alone.
C19_UpiOnlyConfirmPayment ==
    [][/\ \A id \in (1..Len(orders')) \ OrderIds :
            orders'[id].payment_method = "upi"
            => /\ orders'[id].payment_status = "pending"
               /\ orders'[id].status = "pending"
       /\ \A id \in OrderIds :
            /\ (/\ orders[id].payment_method = "upi"
                /\ orders[id].payment_status = "pending"
                /\ orders'[id].payment_status # "pending")
               => /\ confirm_payment(id)
                  /\ orders'[id].payment_status = "confirmed"
                  /\ orders'[id].confirmed_at # None
            /\ confirm_payment(id) => orders'[id].status = orders[id].status]_vars

\* C19 as amended: a UPI order keeps payment_status pending until
\* confirm_payment for that order sets payment_status confirmed and
\* confirmed_at, or complete_delivery by the order's delivery person sets
\* payment_status confirmed; creation and confirm_payment leave the status
\* alone.
C19_UpiPaymentConfirmed ==
    [][/\ \A id \in (1..Len(orders')) \ OrderIds :
            orders'[id].payment_method = "upi"
            => /\ orders'[id].payment_status = "pending"
               /\ orders'[id].status = "pending"
       /\ \A id \in OrderIds :
            /\ (/\ orders[id].payment_method = "upi"
                /\ orders[id].payment_status = "pending"
                /\ orders'[id].payment_status # "pending")
               => /\ orders'[id].payment_status = "confirmed"
                  /\ \/ confirm_payment(id) /\ orders'[id].confirmed_at # None
                     \/ \E d \in DeliveryPersons :
                           /\ orders[id].delivery_person_id = Some(d)
                           /\ complete_delivery(d, id)
            /\ confirm_payment(id) => orders'[id].status = orders[id].status]_vars

\* A UPI order whose payment confirm_payment has confirmed, still pending.
C19_Witness ==
    \E id \in OrderIds :
        /\ orders[id].payment_method = "upi"
        /\ orders[id].payment_status = "confirmed"
        /\ orders[id].confirmed_at # None
        /\ orders[id].status = "pending"

\* C25: while store_open is false no request changes a cart and no order is
\* created.
C25_ClosedStore ==
    [][~store_open => (cart' = cart /\ Len(orders') = Len(orders))]_vars

-----------------------------------------------------------------------------
(* One order from checkout to delivery: SpecPayment *)

\* The customer has filled the cart; the requests are the checkout and
\* everything that can happen to the order afterwards.  The cart is empty
\* once the order is placed, so there is one order at most.
InitPayment ==
    /\ now = 0
    /\ store_open = TRUE
    /\ menu = [i \in Items |-> [price |-> Rs(99), in_stock |-> TRUE]]
    /\ \E q \in {2, 10} :
          cart = [u \in Customers |->
                    IF u \in AppCustomers THEN [i \in Items |-> q]
                    ELSE EmptyCart]
    /\ promotions = [c \in Codes |-> Some(SeedPromotion)]
    /\ orders = << >>
    /\ loyalty_points = [u \in Customers |-> 0]
    /\ loyalty_tier = [u \in Customers |-> "bronze"]
    /\ req = << >>
    /\ input = << >>
    /\ output = NoCall

NextPayment ==
    \/ \E r \in AppCheckouts :
          process_checkout(r.user_id, r.form_ok, r.payment_method,
                           r.coupon_code, r.collides)
    \/ confirm_payment(1)
    \/ \E s \in Statuses : update_order_status(1, s)
    \/ \E d \in DeliveryPersons : assign_order(d, 1)
    \/ \E d \in DeliveryPersons : pickup_order(d, 1)
    \/ \E d \in DeliveryPersons : CompletionWithin(1) /\ complete_delivery(d, 1)

SpecPayment == InitPayment /\ [][NextPayment]_vars

\* C29: once an order has a delivery person, no request changes or clears
\* delivery_person_id; a later assign_order by anyone leaves the order as it
\* was, and pickup_order, complete_delivery, confirm_payment and
\* update_order_status never write the column.
C29_AssignmentKept ==
    [][\A id \in OrderIds :
         Truthy(orders[id].delivery_person_id)
         => /\ orders'[id].delivery_person_id = orders[id].delivery_person_id
            /\ \A d \in DeliveryPersons :
                  assign_order(d, id) => orders'[id] = orders[id]]_vars

\* An order taken by delivery person 11, delivered by them and paid.
C29_Witness ==
    \E id \in OrderIds :
        /\ orders[id].delivery_person_id = Some(11)
        /\ orders[id].status = "delivered"
        /\ orders[id].payment_method = "upi"
        /\ orders[id].credited > 0

-----------------------------------------------------------------------------
(* An order while the menu and the promotions change: SpecSnapshot *)

NextSnapshot ==
    \/ NextPayment
    \/ \E i \in Items, price \in AppPrices : edit_menu_item(i, price)
    \/ \E code \in Codes, form \in AppForms : edit_promotion(code, form)
    \/ \E code \in Codes : delete_promotion(code)

SpecSnapshot == InitPayment /\ [][NextSnapshot]_vars

-----------------------------------------------------------------------------
(* The shop and its promotions: SpecShop *)

MaxShopOrders == 2

Form(type, value, min, cap, limit, expires) ==
    [discount_type    |-> type,
     discount_value   |-> value,
     min_order_amount |-> min,
     max_discount     |-> cap,
     usage_limit      |-> limit,
     expires_at       |-> expires]

\* Forms the admin submits.  Every field is free text parsed by float() or
\* int(): no range is checked.
ShopForms ==
    {Form("percentage", 20, Rs(200), Some(Rs(150)), Some(1), None),
     Form("percentage", 150, 0, None, None, None),
     Form("percentage", 20, 0, Some(0), Some(2), None),
     Form("fixed", Rs(50), 0, None, Some(2), None),
     Form("fixed", Rs(300), Rs(100), None, Some(1), None),
     Form("fixed", Rs(50), 0, None, None, Some(0))}

ShopCheckouts ==
    [user_id : {Some(u) : u \in AppCustomers}, form_ok : {TRUE},
     payment_method : {"cash"}, coupon_code : AppCoupons,
     collides : BOOLEAN]

NextShop ==
    \/ \E u \in AppCustomers, i \in Items, q \in AppQuantities :
          add_to_cart(u, i, q)
    \/ \E i \in Items, price \in AppPrices : edit_menu_item(i, price)
    \/ \E code \in Codes, form \in ShopForms : add_promotion(code, form)
    \/ \E code \in Codes, form \in ShopForms : edit_promotion(code, form)
    \/ \E code \in Codes : toggle_promotion_status(code)
    \/ \E code \in Codes : delete_promotion(code)
    \/ \E r \in ShopCheckouts :
          /\ CheckoutWithin(r, MaxShopOrders)
          /\ process_checkout(r.user_id, r.form_ok, r.payment_method,
                              r.coupon_code, r.collides)
    \/ Tick

SpecShop == InitApp /\ [][NextShop]_vars

\* C3: every order created with a promotion the admin can create or edit has
\* discount <= subtotal and total_amount >= 0.
C3_DiscountWithinSubtotal ==
    \A id \in OrderIds :
        /\ orders[id].discount <= orders[id].subtotal
        /\ orders[id].total_amount >= 0

\* C7: every promotion with a usage limit set has used_count <= usage_limit.
C7_UsedWithinLimit ==
    \A code \in Codes :
        (~IsNone(promotions[code]) /\ ~IsNone(Val(promotions[code]).usage_limit)) =>
            Val(promotions[code]).used_count <= Val(Val(promotions[code]).usage_limit)

-----------------------------------------------------------------------------
(* Coupons looked at and used: SpecCoupon *)

\* utils.py: apply_coupon, the discount the checkout page shows.
apply_coupon(coupon_code, subtotal) ==
    LET promotion == Lookup(promotions, coupon_code)
    IN  IF coupon_code = "" THEN 0
        ELSE IF IsNone(promotion) THEN 0
        ELSE IF ~is_valid(Val(promotion), now) THEN 0
        ELSE IF subtotal < Val(promotion).min_order_amount THEN 0
        ELSE calculate_discount(Val(promotion), subtotal, now)

\* routes.py: checkout, the page before the order is placed.  It reads and
\* renders; output holds the discount and total shown (0 when the page
\* redirects instead).
checkout(user_id, coupon_code) ==
    LET cart_items == get_cart_items(user_id)
        subtotal   == CartSubtotal(cart_items)
        shown      == ~CartIsEmpty(cart_items) /\ store_open
        discount   == apply_coupon(coupon_code, subtotal)
    IN  /\ output' =
             [fn    |-> "checkout",
              value |-> IF shown
                        THEN [discount |-> discount,
                              total    |-> subtotal
                                           + calculate_delivery_charges(subtotal)
                                           - discount]
                        ELSE [discount |-> 0, total |-> 0]]
        /\ UNCHANGED <<now, store_open, menu, cart, promotions, orders,
                       loyalty_points, loyalty_tier, req, input>>

\* routes.py: api_validate_coupon.  A promotion that is not valid is
\* answered by one of the three reasons; output holds 'valid' and 'discount'.
api_validate_coupon(coupon_code, subtotal) ==
    LET promotion == Lookup(promotions, coupon_code)
        valid     == /\ coupon_code # ""
                     /\ ~IsNone(promotion)
                     /\ is_valid(Val(promotion), now)
                     /\ subtotal >= Val(promotion).min_order_amount
    IN  /\ output' =
             [fn    |-> "api_validate_coupon",
              value |-> [valid    |-> valid,
                         discount |-> IF valid
                                      THEN calculate_discount(Val(promotion),
                                                              subtotal, now)
                                      ELSE 0]]
        /\ UNCHANGED <<now, store_open, menu, cart, promotions, orders,
                       loyalty_points, loyalty_tier, req, input>>

\* A promotion whose use is worth watching, and one that rejects.
CouponForms ==
    {Form("fixed", Rs(50), 0, None, Some(2), None),
     Form("percentage", 20, Rs(200), Some(Rs(150)), None, None)}

CouponSubtotals == {Rs(150), Rs(990)}

NextCoupon ==
    \/ \E u \in AppCustomers, i \in Items : add_to_cart(u, i, 10)
    \/ \E i \in Items, price \in AppPrices : edit_menu_item(i, price)
    \/ \E code \in Codes, form \in CouponForms : edit_promotion(code, form)
    \/ \E code \in Codes : toggle_promotion_status(code)
    \/ \E code \in Codes, subtotal \in CouponSubtotals :
          api_validate_coupon(code, subtotal)
    \/ \E u \in AppCustomers, code \in Codes : checkout(Some(u), code)
    \/ \E r \in ShopCheckouts :
          /\ CheckoutWithin(r, MaxShopOrders)
          /\ process_checkout(r.user_id, r.form_ok, r.payment_method,
                              r.coupon_code, r.collides)

SpecCoupon == InitApp /\ [][NextCoupon]_vars

-----------------------------------------------------------------------------
(* The carts alone: SpecCart *)

\* quantity as int() parses the form field: any integer.
CartQuantities == {-1, 0, 1, 5, 6, 10, 11}

NextCart ==
    \/ \E u \in Customers, i \in Items, q \in CartQuantities :
          add_to_cart(u, i, q)
    \/ \E u \in Customers, i \in Items, q \in CartQuantities :
          update_cart(u, i, q)
    \/ \E u \in Customers : clear_cart(u)
    \/ toggle_store
    \/ \E i \in Items : toggle_menu_item_stock(i)

SpecCart == InitApp /\ [][NextCart]_vars

\* C23: after any add_to_cart, update_cart and clear_cart requests with any
\* integer quantities every cart line has a quantity from 1 to 10 (0 stands
\* for no line), and adding an item that is in the cart adds to its line, the
\* sum capped at 10.
C23_CartQuantities ==
    [][\A u \in Customers, i \in Items :
         /\ cart'[u][i] \in 0..10
         /\ \A q \in CartQuantities :
               (add_to_cart(u, i, q) /\ cart[u][i] > 0 /\ cart' # cart)
               => cart'[u][i] = Min(cart[u][i] + q, 10)]_vars

\* A line of 10 next to a line of 6: 5 and 6 merged and capped, 1 and 5
\* merged.
C23_Witness ==
    \E u, v \in Customers, i \in Items :
        cart[u][i] = 10 /\ cart[v][i] = 6

-----------------------------------------------------------------------------
(* A visitor who is not logged in: SpecGuest *)

\* add_to_cart with no user_id in the session: redirected to the login page.
add_to_cart_guest(i, quantity) ==
    UNCHANGED vars

\* What a visitor with no session posts to process_checkout.
GuestCheckouts ==
    [user_id : {None}, form_ok : BOOLEAN, payment_method : AppMethods,
     coupon_code : AppCoupons, collides : {FALSE}]

NextGuest ==
    \/ \E i \in Items, q \in AppQuantities : add_to_cart_guest(i, q)
    \/ \E r \in GuestCheckouts :
          process_checkout(r.user_id, r.form_ok, r.payment_method,
                           r.coupon_code, r.collides)
    \/ \E u \in Customers, i \in Items, q \in AppQuantities :
          add_to_cart(u, i, q)
    \/ \E r \in AppCheckouts :
          /\ CheckoutWithin(r, MaxOrders)
          /\ process_checkout(r.user_id, r.form_ok, r.payment_method,
                              r.coupon_code, r.collides)
    \/ toggle_store
    \/ \E i \in Items, price \in AppPrices : edit_menu_item(i, price)

\* Requests keep arriving: a step is taken whenever one can change the state.
SpecGuest == InitApp /\ [][NextGuest]_vars /\ WF_vars(NextGuest)

\* C27: a guest can check out: in the end there is an order with no owning
\* user and the guest's name stored on it.
C27_GuestOrder ==
    <>(\E id \in OrderIds :
          IsNone(orders[id].user_id) /\ ~IsNone(orders[id].guest_name))

-----------------------------------------------------------------------------
(* Two checkouts at once: SpecCheckoutRace *)

\* Each request runs in its own database session.  What a session has
\* loaded stays as loaded until its next commit; a commit writes the values
\* the session computed.  A request takes one step per database round:
\*   begin    lines 216-256: read the cart and the promotion, check the coupon
\*   use      line 258: use_promotion, UPDATE used_count and commit
\*   insert   lines 266-305: INSERT the order and its items, clear the cart,
\*            commit
\*   confirm  lines 311-314: cash on delivery, UPDATE payment_status, commit
Procs == {"a", "b"}
CustomerOf(p) == IF p = "a" THEN 1 ELSE 2

IdleRequest == [pc |-> "idle"]

\* A promotion with usage_limit = 1 and used_count = 0.
RacePromotions ==
    {FormRow(Form("fixed", Rs(50), 0, None, Some(1), None), 0, TRUE),
     FormRow(Form("percentage", 20, Rs(100), Some(Rs(150)), Some(1), None), 0, TRUE)}

InitCheckoutRace ==
    /\ now = 0
    /\ store_open = TRUE
    /\ menu = [i \in Items |-> [price |-> Rs(99), in_stock |-> TRUE]]
    /\ cart \in [Customers -> [Items -> {2, 10}]]
    /\ promotions \in [Codes -> {Some(row) : row \in RacePromotions}]
    /\ orders = << >>
    /\ loyalty_points = [u \in Customers |-> 0]
    /\ loyalty_tier = [u \in Customers |-> "bronze"]
    /\ req = [p \in Procs |-> IdleRequest]
    /\ input = << >>
    /\ output = NoCall

UnchangedByRequest ==
    UNCHANGED <<now, store_open, menu, loyalty_points, loyalty_tier, input, output>>

checkout_begin(p, payment_method, coupon_code) ==
    LET user_id == Some(CustomerOf(p))
        L       == CheckoutLocals(user_id, coupon_code)
    IN  /\ req[p].pc = "idle"
        /\ req' = [req EXCEPT ![p] =
             [pc             |-> IF ~store_open \/ CartIsEmpty(L.cart_items)
                                 THEN "done"
                                 ELSE IF coupon_code = "" THEN "insert"
                                 ELSE IF L.accepted THEN "use"
                                 ELSE "done",
              user_id        |-> user_id,
              payment_method |-> payment_method,
              coupon_code    |-> coupon_code,
              L              |-> L,
              order_id       |-> 0]]
        /\ UNCHANGED <<cart, promotions, orders>>
        /\ UnchangedByRequest

checkout_use(p) ==
    /\ req[p].pc = "use"
    /\ promotions' = use_promotion(promotions, req[p].coupon_code,
                                   req[p].L.loaded_count)
    /\ req' = [req EXCEPT ![p].pc = "insert"]
    /\ UNCHANGED <<cart, orders>>
    /\ UnchangedByRequest

checkout_insert(p) ==
    LET r == req[p]
    IN  /\ r.pc = "insert"
        /\ orders' = Append(orders, NewOrder(r.user_id, r.L, r.payment_method,
                                             r.coupon_code))
        /\ cart' = [cart EXCEPT ![Val(r.user_id)] = EmptyCart]
        /\ req' = [req EXCEPT
                     ![p].pc = IF r.payment_method = "upi" THEN "done"
                               ELSE "confirm",
                     ![p].order_id = Len(orders) + 1]
        /\ UNCHANGED promotions
        /\ UnchangedByRequest

checkout_confirm(p) ==
    /\ req[p].pc = "confirm"
    /\ orders' = [orders EXCEPT ![req[p].order_id] = MarkConfirmed(@, now)]
    /\ req' = [req EXCEPT ![p].pc = "done"]
    /\ UNCHANGED <<cart, promotions>>
    /\ UnchangedByRequest

NextCheckoutRace ==
    \/ \E p \in Procs, m \in AppMethods, c \in AppCoupons :
          checkout_begin(p, m, c)
    \/ \E p \in Procs : checkout_use(p)
    \/ \E p \in Procs : checkout_insert(p)
    \/ \E p \in Procs : checkout_confirm(p)

SpecCheckoutRace == InitCheckoutRace /\ [][NextCheckoutRace]_vars

DiscountedOrders(code) ==
    {id \in OrderIds :
        orders[id].coupon_code = Some(code) /\ orders[id].discount > 0}

\* C8: with usage_limit = 1 and used_count = 0, of two checkouts that both
\* pass the validity check at most one uses the coupon and gets the discount:
\* used_count never exceeds 1 and at most one order carries the discount.
C8_OneUse ==
    \A code \in Codes :
        /\ Val(promotions[code]).used_count <= 1
        /\ Cardinality(DiscountedOrders(code)) <= 1

-----------------------------------------------------------------------------
(* The order's transaction, statement by statement: SpecCheckoutSteps *)

\* Between use_promotion's commit and the end of the try block the session
\* holds rows that are not committed: the Order after db.session.add and
\* flush, then its OrderItem rows.  clear_user_cart commits the session, the
\* pending rows with the deletion of the cart; the except branch rolls the
\* session back.  orders holds the committed rows only.
\*   flush   lines 268-288: the Order is added and flushed
\*   items   lines 290-299: the OrderItem rows are added
\*   commit  lines 301-305: clear_user_cart and the commit
NoOrderItems ==
    [i \in Items |-> [quantity |-> 0, unit_price |-> 0, total_price |-> 0]]

\* The request's record with the Order pending in its session.
InSession(r, pc, pending) ==
    [pc             |-> pc,
     user_id        |-> r.user_id,
     payment_method |-> r.payment_method,
     coupon_code    |-> r.coupon_code,
     L              |-> r.L,
     order_id       |-> 0,
     pending        |-> pending]

\* `except Exception`: rollback; at names the statement that raised.
Rollback(r, at) ==
    [pc             |-> "error",
     user_id        |-> r.user_id,
     payment_method |-> r.payment_method,
     coupon_code    |-> r.coupon_code,
     L              |-> r.L,
     order_id       |-> 0,
     at             |-> at]

order_flushCommits(p, collides) ==
    LET r      == req[p]
        header == [NewOrder(r.user_id, r.L, r.payment_method, r.coupon_code)
                     EXCEPT !.order_items = NoOrderItems]
    IN  /\ r.pc = "insert"
        /\ IF collides /\ Len(orders) > 0
           THEN /\ req' = [req EXCEPT ![p] = Rollback(r, "flush")]
                /\ UNCHANGED orders
           ELSE /\ req' = [req EXCEPT ![p] = InSession(r, "items", header)]
                /\ orders' = Append(orders, header)
        /\ UNCHANGED <<cart, promotions>>
        /\ UnchangedByRequest

\* collides: generate_order_number drew the number of a committed order and
\* the INSERT fails on the unique column.
order_flush(p, collides) ==
    LET r      == req[p]
        header == [NewOrder(r.user_id, r.L, r.payment_method, r.coupon_code)
                     EXCEPT !.order_items = NoOrderItems]
    IN  /\ r.pc = "insert"
        /\ req' = [req EXCEPT
                     ![p] = IF collides /\ Len(orders) > 0
                            THEN Rollback(r, "flush")
                            ELSE InSession(r, "items", header)]
        /\ UNCHANGED <<cart, promotions, orders>>
        /\ UnchangedByRequest

\* error: a statement of the loop raises.
order_add_items(p, error) ==
    LET r     == req[p]
        items == NewOrder(r.user_id, r.L, r.payment_method,
                          r.coupon_code).order_items
    IN  /\ r.pc = "items"
        /\ req' = [req EXCEPT
                     ![p] = IF error
                            THEN Rollback(r, "items")
                            ELSE InSession(r, "commit",
                                           [r.pending EXCEPT
                                              !.order_items = items])]
        /\ UNCHANGED <<cart, promotions, orders>>
        /\ UnchangedByRequest

\* error: the commit fails; nothing of the session is written.
order_commit(p, error) ==
    LET r == req[p]
    IN  /\ r.pc = "commit"
        /\ IF error
           THEN /\ req' = [req EXCEPT ![p] = Rollback(r, "commit")]
                /\ UNCHANGED <<cart, orders>>
           ELSE /\ orders' = Append(orders, r.pending)
                /\ cart' = IF Truthy(r.user_id)
                           THEN [cart EXCEPT ![Val(r.user_id)] = EmptyCart]
                           ELSE cart
                /\ req' = [req EXCEPT
                             ![p] = [pc |-> IF r.payment_method = "upi"
                                            THEN "done" ELSE "confirm",
                                     user_id        |-> r.user_id,
                                     payment_method |-> r.payment_method,
                                     coupon_code    |-> r.coupon_code,
                                     L              |-> r.L,
                                     order_id       |-> Len(orders) + 1]]
        /\ UNCHANGED promotions
        /\ UnchangedByRequest

NextCheckoutSteps ==
    \/ \E p \in Procs, m \in AppMethods, c \in AppCoupons :
          checkout_begin(p, m, c)
    \/ \E p \in Procs : checkout_use(p)
    \/ \E p \in Procs, collides \in BOOLEAN : order_flush(p, collides)
    \/ \E p \in Procs, error \in BOOLEAN : order_add_items(p, error)
    \/ \E p \in Procs, error \in BOOLEAN : order_commit(p, error)
    \/ \E p \in Procs : checkout_confirm(p)

SpecCheckoutSteps == InitCheckoutRace /\ [][NextCheckoutSteps]_vars

\* C20: in every committed state an order exists exactly when the request
\* that made it got through, and then with every line item copied from the
\* cart; a request that met an error after inserting the order header has
\* left neither the order nor any line item.
C20_AllOrNothing ==
    /\ \A id \in OrderIds :
          \E p \in Procs :
             /\ req[p].pc \in {"confirm", "done"}
             /\ req[p].order_id = id
             /\ \A i \in Items :
                   /\ orders[id].order_items[i].quantity =
                         req[p].L.cart_items[i].quantity
                   /\ orders[id].order_items[i].total_price =
                         req[p].L.cart_items[i].total
             /\ \E i \in Items : orders[id].order_items[i].quantity > 0
    /\ \A p \in Procs :
          req[p].pc = "error"
          => \A id \in OrderIds : orders[id].user_id # req[p].user_id

\* One request failed while adding the line items, after its header was
\* flushed; the other committed its order.
C20_Witness ==
    \E p, q \in Procs :
        /\ req[p].pc = "error"
        /\ req[p].at = "items"
        /\ req[q].pc = "done"
        /\ req[q].order_id = 1
        /\ Len(orders) = 1

\* C21: used_count goes up by one with each order created with the coupon
\* and only then: a checkout that validated the coupon and then failed to
\* persist its order leaves used_count as it was, so that, no request being
\* under way, used_count is the number of orders created with the coupon.
C21_UsedCountMatchesOrders ==
    (\A p \in Procs : req[p].pc \in {"idle", "done", "error"})
    => \A code \in Codes :
          Val(promotions[code]).used_count =
             Cardinality({id \in OrderIds :
                            orders[id].coupon_code = Some(code)})

-----------------------------------------------------------------------------
(* Two add_to_cart requests at once: SpecCartRace *)

\* Here cart is the cart_item table row by row, in insertion order: the
\* table has a primary key id and no unique constraint on
\* (user_id, menu_item_id), so it can hold what the per-line cart of the
\* sequential specifications cannot.
RaceQuantities == {1, 5}

InitCartRace ==
    /\ now = 0
    /\ store_open = TRUE
    /\ menu = [i \in Items |-> [price |-> Rs(99), in_stock |-> TRUE]]
    /\ cart = << >>
    /\ promotions = [c \in Codes |-> Some(SeedPromotion)]
    /\ orders = << >>
    /\ loyalty_points = [u \in Customers |-> 0]
    /\ loyalty_tier = [u \in Customers |-> "bronze"]
    /\ req = [p \in Procs |-> IdleRequest]
    /\ input = << >>
    /\ output = NoCall

\* CartItem.query.filter_by(user_id, menu_item_id).first(): the position of
\* the first matching row, 0 if there is none.
first_cart_item(rows, u, i) ==
    LET matches == {k \in DOMAIN rows :
                       rows[k].user_id = u /\ rows[k].menu_item_id = i}
    IN  IF matches = {} THEN 0
        ELSE CHOOSE k \in matches : \A m \in matches : k <= m

\* add_to_cart up to the query for the existing row.
add_begin(p, u, i, quantity) ==
    LET rejected == \/ ~store_open
                    \/ quantity < 1 \/ quantity > 10
                    \/ ~menu[i].in_stock
        k        == first_cart_item(cart, u, i)
    IN  /\ req[p].pc = "idle"
        /\ ~rejected
        /\ req' = [req EXCEPT ![p] =
             [pc            |-> "loaded",
              user_id       |-> u,
              menu_item_id  |-> i,
              quantity      |-> quantity,
              existing_item |-> k,
              loaded        |-> IF k = 0 THEN 0 ELSE cart[k].quantity]]
        /\ UNCHANGED <<cart, promotions, orders>>
        /\ UnchangedByRequest

\* The rest of add_to_cart: the row loaded is written with the new quantity,
\* or a row is inserted, and the session commits.
add_commit(p) ==
    LET r == req[p]
    IN  /\ r.pc = "loaded"
        /\ cart' =
             IF r.existing_item # 0
             THEN [cart EXCEPT ![r.existing_item].quantity =
                                  Min(r.loaded + r.quantity, 10)]
             ELSE Append(cart, [user_id      |-> r.user_id,
                                menu_item_id |-> r.menu_item_id,
                                quantity     |-> r.quantity])
        /\ req' = [req EXCEPT ![p] = IdleRequest]
        /\ UNCHANGED <<promotions, orders>>
        /\ UnchangedByRequest

NextCartRace ==
    \/ \E p \in Procs, u \in AppCustomers, i \in Items, q \in RaceQuantities :
          add_begin(p, u, i, q)
    \/ \E p \in Procs : add_commit(p)

SpecCartRace == InitCartRace /\ [][NextCartRace]_vars

\* C24: the cart holds at most one line per (user, menu item), also when
\* add_to_cart requests of one user for one item interleave.
C24_OneLinePerItem ==
    \A k, m \in DOMAIN cart :
        (cart[k].user_id = cart[m].user_id
            /\ cart[k].menu_item_id = cart[m].menu_item_id)
        => k = m

-----------------------------------------------------------------------------
(* Two delivery persons claim one order: SpecAssignRace *)

\* A request takes one step per database round:
\*   begin   line 975-977: load the order, test delivery_person_id
\*   commit  lines 980-985: UPDATE delivery_person_id (and status), commit
ActorOf(p) == IF p = "a" THEN 11 ELSE 12

\* An order as a checkout of 10 items leaves it, in any status the admin
\* may have given it, unassigned.
RaceOrders ==
    {[NewOrder(Some(1),
               Locals(CartRows([i \in Items |-> 10],
                               [i \in Items |-> [price |-> price,
                                                 in_stock |-> TRUE]]),
                      None, "", 0),
               m, "")
        EXCEPT !.status = s, !.payment_status = ps] :
        price \in AppPrices, m \in AppMethods, s \in Statuses,
        ps \in {"pending", "confirmed"}}

InitAssignRace ==
    /\ now = 0
    /\ store_open = TRUE
    /\ menu = [i \in Items |-> [price |-> Rs(99), in_stock |-> TRUE]]
    /\ cart = [u \in Customers |-> EmptyCart]
    /\ promotions = [c \in Codes |-> Some(SeedPromotion)]
    /\ orders \in {<<o>> : o \in RaceOrders}
    /\ loyalty_points = [u \in Customers |-> 0]
    /\ loyalty_tier = [u \in Customers |-> "bronze"]
    /\ req = [p \in Procs |-> IdleRequest]
    /\ input = << >>
    /\ output = NoCall

assign_begin(p, id) ==
    /\ req[p].pc = "idle"
    /\ id \in OrderIds
    /\ req' = [req EXCEPT ![p] =
         IF Truthy(orders[id].delivery_person_id)
         THEN [pc |-> "done", order_id |-> id, loaded_status |-> orders[id].status,
               flash |-> "already assigned"]
         ELSE [pc |-> "commit", order_id |-> id, loaded_status |-> orders[id].status,
               flash |-> ""]]
    /\ UNCHANGED <<cart, promotions, orders>>
    /\ UnchangedByRequest

assign_commit(p) ==
    /\ req[p].pc = "commit"
    /\ orders' =
         [orders EXCEPT
            ![req[p].order_id] =
               [@ EXCEPT !.delivery_person_id = Some(ActorOf(p)),
                         !.status = IF req[p].loaded_status = "confirmed"
                                    THEN "preparing" ELSE @]]
    /\ req' = [req EXCEPT ![p].pc = "done", ![p].flash = "assigned to you"]
    /\ UNCHANGED <<cart, promotions>>
    /\ UnchangedByRequest

NextAssignRace ==
    \/ \E p \in Procs : assign_begin(p, 1)
    \/ \E p \in Procs : assign_commit(p)

SpecAssignRace == InitAssignRace /\ [][NextAssignRace]_vars

\* C9: of two assign_order requests for one unassigned order, exactly one
\* succeeds and is the order's delivery person; the other is told the order
\* is already assigned.
C9_OneClaim ==
    (\A p \in Procs : req[p].pc = "done") =>
        \E p \in Procs :
            /\ req[p].flash = "assigned to you"
            /\ orders[1].delivery_person_id = Some(ActorOf(p))
            /\ \A q \in Procs \ {p} : req[q].flash = "already assigned"

-----------------------------------------------------------------------------
(* The delivery actors alone: SpecDelivery *)

\* One order, in whatever status the admin has given it, and only the
\* delivery actors' requests, one at a time.
NextDelivery ==
    \/ \E d \in DeliveryPersons : assign_order(d, 1)
    \/ \E d \in DeliveryPersons : pickup_order(d, 1)
    \/ \E d \in DeliveryPersons : CompletionWithin(1) /\ complete_delivery(d, 1)

SpecDelivery == InitAssignRace /\ [][NextDelivery]_vars

-----------------------------------------------------------------------------
(* models.py: the loyalty tiers and redemption; SpecLoyalty *)

TierNames == <<"bronze", "silver", "gold", "platinum">>

\* max_points of platinum is float('inf'): no upper end.
tiersShifted ==
    [bronze   |-> [min_points |-> 0, max_points |-> Some(1000),
                   conversion_rate |-> 5],
     silver   |-> [min_points |-> 1001, max_points |-> Some(2499),
                   conversion_rate |-> 4],
     gold     |-> [min_points |-> 2500, max_points |-> Some(4999),
                   conversion_rate |-> 3],
     platinum |-> [min_points |-> 5000, max_points |-> None,
                   conversion_rate |-> 2]]

tiers ==
    [bronze   |-> [min_points |-> 0, max_points |-> Some(999),
                   conversion_rate |-> 5],
     silver   |-> [min_points |-> 1000, max_points |-> Some(2499),
                   conversion_rate |-> 4],
     gold     |-> [min_points |-> 2500, max_points |-> Some(4999),
                   conversion_rate |-> 3],
     platinum |-> [min_points |-> 5000, max_points |-> None,
                   conversion_rate |-> 2]]

InBand(info, points) ==
    /\ info.min_points <= points
    /\ (IsNone(info.max_points) \/ points <= Val(info.max_points))

\* The loop over tiers.items(), in the order of the table, with its break;
\* 'bronze' when no band holds the points.
RECURSIVE ScanTiers(_, _)
ScanTiers(k, points) ==
    IF k > Len(TierNames) THEN "bronze"
    ELSE IF InBand(tiers[TierNames[k]], points) THEN TierNames[k]
    ELSE ScanTiers(k + 1, points)

\* A User object: [loyalty_points, loyalty_tier].  The method returns the
\* tier's entry and leaves the object's label set to the tier.
get_loyalty_tier_info(user) ==
    LET current_tier == ScanTiers(1, user.loyalty_points)
    IN  [tier            |-> current_tier,
         conversion_rate |-> tiers[current_tier].conversion_rate,
         user            |-> [user EXCEPT !.loyalty_tier = current_tier]]

\* The method returns (False, message) or (True, redeemed_amount).
redeem_pointsRateAfter(user, points_to_redeem) ==
    IF points_to_redeem < 100
    THEN [success |-> FALSE, amount |-> 0,
          message |-> "Minimum redemption is 100 points", user |-> user]
    ELSE IF points_to_redeem > user.loyalty_points
    THEN [success |-> FALSE, amount |-> 0, message |-> "Insufficient points",
          user |-> user]
    ELSE LET after     == [user EXCEPT !.loyalty_points = @ - points_to_redeem]
             tier_info == get_loyalty_tier_info(after)
         IN  [success |-> TRUE,
              amount  |-> points_to_redeem \div tier_info.conversion_rate,
              message |-> "",
              user    |-> tier_info.user]

redeem_points(user, points_to_redeem) ==
    IF points_to_redeem < 100
    THEN [success |-> FALSE, amount |-> 0,
          message |-> "Minimum redemption is 100 points", user |-> user]
    ELSE IF points_to_redeem > user.loyalty_points
    THEN [success |-> FALSE, amount |-> 0, message |-> "Insufficient points",
          user |-> user]
    ELSE LET tier_info == get_loyalty_tier_info(user)
         IN  [success |-> TRUE,
              amount  |-> points_to_redeem \div tier_info.conversion_rate,
              message |-> "",
              user    |-> [tier_info.user EXCEPT
                             !.loyalty_points = @ - points_to_redeem]]

\* The User row of customer u as a request loads it.
UserRow(u) ==
    [loyalty_points |-> loyalty_points[u], loyalty_tier |-> loyalty_tier[u]]

\* routes.py: redeem_loyalty_points.  Only a successful redemption commits;
\* output holds what the method returned.
redeem_loyalty_points(u, points_to_redeem) ==
    LET r == redeem_points(UserRow(u), points_to_redeem)
    IN  /\ loyalty_points' =
             IF r.success
             THEN [loyalty_points EXCEPT ![u] = r.user.loyalty_points]
             ELSE loyalty_points
        /\ loyalty_tier' =
             IF r.success
             THEN [loyalty_tier EXCEPT ![u] = r.user.loyalty_tier]
             ELSE loyalty_tier
        /\ output' = [fn    |-> "redeem_points",
                      value |-> [success |-> r.success, amount |-> r.amount,
                                 message |-> r.message]]
        /\ UNCHANGED <<now, store_open, menu, cart, promotions, orders, req,
                       input>>

\* routes.py: loyalty_dashboard.  The page calls get_loyalty_tier_info and
\* renders; nothing is committed, so the row keeps its label.  output holds
\* the tier returned and the label of the User object after the call.
loyalty_dashboard(u) ==
    LET r == get_loyalty_tier_info(UserRow(u))
    IN  /\ output' = [fn    |-> "get_loyalty_tier_info",
                      value |-> [tier            |-> r.tier,
                                 conversion_rate |-> r.conversion_rate,
                                 loyalty_tier    |-> r.user.loyalty_tier]]
        /\ UNCHANGED <<now, store_open, menu, cart, promotions, orders,
                       loyalty_points, loyalty_tier, req, input>>

\* Balances on both sides of every tier boundary and of the minimum of 100.
LoyaltyBalances ==
    {0, 50, 99, 100, 250, 999, 1000, 1100, 2499, 2500, 2600, 4999, 5000, 5200}

\* points_to_redeem as int() parses the form field.
LoyaltyRequests == {-5, 0, 50, 99, 100, 101, 250, 1000, 2500, 5000}

LoyaltyCustomers == {1}

InitLoyalty ==
    /\ now = 0
    /\ store_open = TRUE
    /\ menu = [i \in Items |-> [price |-> Rs(99), in_stock |-> TRUE]]
    /\ cart = [u \in Customers |-> EmptyCart]
    /\ promotions = [c \in Codes |-> Some(SeedPromotion)]
    /\ orders = << >>
    /\ \E b \in LoyaltyBalances, k \in 1..Len(TierNames) :
          /\ loyalty_points = [u \in Customers |->
                                 IF u \in LoyaltyCustomers THEN b ELSE 0]
          /\ loyalty_tier = [u \in Customers |->
                               IF u \in LoyaltyCustomers THEN TierNames[k]
                               ELSE "bronze"]
    /\ req = << >>
    /\ input = << >>
    /\ output = NoCall

NextLoyalty ==
    \/ \E u \in LoyaltyCustomers, points \in LoyaltyRequests :
          redeem_loyalty_points(u, points)
    \/ \E u \in LoyaltyCustomers : loyalty_dashboard(u)

SpecLoyalty == InitLoyalty /\ [][NextLoyalty]_vars

\* C15: redeem_points(points) with 100 <= points <= balance succeeds, takes
\* exactly points off the balance and returns floor(points / rate), the rate
\* being that of the tier of the balance before the deduction: 5 bronze
\* (up to 999), 4 silver (up to 2499), 3 gold (up to 4999), 2 platinum.
C15_RedeemSucceeds ==
    [][\A u \in LoyaltyCustomers, points \in LoyaltyRequests :
         (/\ redeem_loyalty_points(u, points)
          /\ 100 <= points
          /\ points <= loyalty_points[u])
         => LET balance == loyalty_points[u]
                rate    == IF balance >= 5000 THEN 2
                           ELSE IF balance >= 2500 THEN 3
                           ELSE IF balance >= 1000 THEN 4
                           ELSE 5
            IN  /\ output'.value.success
                /\ loyalty_points'[u] = balance - points
                /\ output'.value.amount = points \div rate]_vars

\* A silver balance of 1000 redeemed whole: 250 rupees at the silver rate,
\* and the balance is left in bronze.
C15_Witness ==
    /\ output.fn = "redeem_points"
    /\ output.value.success
    /\ output.value.amount = 250
    /\ \E u \in LoyaltyCustomers :
          loyalty_points[u] = 0 /\ loyalty_tier[u] = "silver"

\* C16: redeem_points fails with "Insufficient points" whenever points >
\* balance, also for points below 100; it fails with the minimum message when
\* points <= balance and points < 100; a failure leaves the balance as it is.
C16_RedeemFails ==
    [][\A u \in LoyaltyCustomers, points \in LoyaltyRequests :
         redeem_loyalty_points(u, points)
         => /\ points > loyalty_points[u]
               => /\ ~output'.value.success
                  /\ output'.value.message = "Insufficient points"
                  /\ loyalty_points' = loyalty_points
            /\ (points <= loyalty_points[u] /\ points < 100)
               => /\ ~output'.value.success
                  /\ output'.value.message = "Minimum redemption is 100 points"
                  /\ loyalty_points' = loyalty_points]_vars

\* C17: for a balance b >= 0 get_loyalty_tier_info returns bronze up to 999,
\* silver from 1000 to 2499, gold from 2500 to 4999 and platinum from 5000,
\* and the user's loyalty_tier label is that tier after the call.
C17_TierBands ==
    [][\A u \in LoyaltyCustomers :
         (loyalty_dashboard(u) /\ loyalty_points[u] >= 0)
         => LET b    == loyalty_points[u]
                band == IF b <= 999 THEN "bronze"
                        ELSE IF b <= 2499 THEN "silver"
                        ELSE IF b <= 4999 THEN "gold"
                        ELSE "platinum"
            IN  /\ output'.value.tier = band
                /\ output'.value.loyalty_tier = band]_vars

\* The call on a balance of 2500 whose row still carries another label.
C17_Witness ==
    /\ output.fn = "get_loyalty_tier_info"
    /\ output.value.tier = "gold"
    /\ output.value.loyalty_tier = "gold"
    /\ \E u \in LoyaltyCustomers :
          loyalty_points[u] = 2500 /\ loyalty_tier[u] # "gold"

-----------------------------------------------------------------------------
(* Redemptions and a delivery completion at once: SpecLoyaltyRace *)

\* points_to_redeem as the customer posts it.
PointsRequests == {100, 150}

\* Balances of customer 1 before the requests; input keeps the one chosen.
RaceBalances == {100, 150, 250}

\* An order of customer 1, out for delivery with delivery person 11.
InitLoyaltyRace ==
    /\ now = 0
    /\ store_open = TRUE
    /\ menu = [i \in Items |-> [price |-> Rs(99), in_stock |-> TRUE]]
    /\ cart = [u \in Customers |-> EmptyCart]
    /\ promotions = [c \in Codes |-> Some(SeedPromotion)]
    /\ \E o \in RaceOrders :
          /\ o.status = "confirmed"
          /\ o.payment_status = "confirmed"
          /\ orders = <<[o EXCEPT !.status = "out_for_delivery",
                                  !.delivery_person_id = Some(11)]>>
    /\ \E b \in RaceBalances :
          /\ loyalty_points = [u \in Customers |-> IF u = 1 THEN b ELSE 0]
          /\ input = [loyalty_points |-> b]
    /\ loyalty_tier = [u \in Customers |-> "bronze"]
    /\ req = [p \in Procs |-> IdleRequest]
    /\ output = NoCall

\* A finished request, with the points it credited and the points it
\* redeemed.
Finished(credited, redeemed) ==
    [pc |-> "done", credited |-> credited, redeemed |-> redeemed]

\* redeem_loyalty_points up to get_current_user(): the User row is loaded.
redeem_begin(p, u, points_to_redeem) ==
    /\ req[p].pc = "idle"
    /\ req' = [req EXCEPT ![p] =
         [pc               |-> "redeem",
          user_id          |-> u,
          user             |-> UserRow(u),
          points_to_redeem |-> points_to_redeem]]
    /\ UNCHANGED <<cart, promotions, orders, loyalty_points, loyalty_tier,
                   now, store_open, menu, input, output>>

\* user.redeem_points on the row as loaded; on success the session writes
\* the attributes it changed and commits.
redeem_commit(p) ==
    LET q == req[p]
        r == redeem_points(q.user, q.points_to_redeem)
    IN  /\ q.pc = "redeem"
        /\ loyalty_points' =
             IF r.success
             THEN [loyalty_points EXCEPT ![q.user_id] = r.user.loyalty_points]
             ELSE loyalty_points
        /\ loyalty_tier' =
             IF r.success /\ r.user.loyalty_tier # q.user.loyalty_tier
             THEN [loyalty_tier EXCEPT ![q.user_id] = r.user.loyalty_tier]
             ELSE loyalty_tier
        /\ req' = [req EXCEPT ![p] =
             Finished(0, IF r.success THEN q.points_to_redeem ELSE 0)]
        /\ UNCHANGED <<cart, promotions, orders, now, store_open, menu,
                       input, output>>

\* complete_delivery up to User.query.get(order.user_id): the order and the
\* customer are loaded.
complete_begin(p, d, id) ==
    /\ req[p].pc = "idle"
    /\ id \in OrderIds
    /\ req' = [req EXCEPT ![p] =
         IF orders[id].delivery_person_id # Some(d)
         THEN Finished(0, 0)
         ELSE [pc       |-> "complete",
               order_id |-> id,
               credits  |-> Truthy(orders[id].user_id),
               loaded   |-> IF Truthy(orders[id].user_id)
                            THEN loyalty_points[Val(orders[id].user_id)]
                            ELSE 0]]
    /\ UNCHANGED <<cart, promotions, orders, loyalty_points, loyalty_tier,
                   now, store_open, menu, input, output>>

\* The rest of complete_delivery: the order's columns and the customer's
\* balance, as computed from the rows loaded, are written and committed.
complete_commit(p) ==
    LET q      == req[p]
        order  == orders[q.order_id]
        earned == points_earned(order.total_amount)
    IN  /\ q.pc = "complete"
        /\ orders' =
             [orders EXCEPT
                ![q.order_id] = [@ EXCEPT
                                   !.status = "delivered",
                                   !.delivery_time = Some(now),
                                   !.payment_status = "confirmed",
                                   !.credited = IF q.credits THEN @ + 1 ELSE @]]
        /\ loyalty_points' =
             IF q.credits
             THEN [loyalty_points EXCEPT ![Val(order.user_id)] = q.loaded + earned]
             ELSE loyalty_points
        /\ req' = [req EXCEPT ![p] =
             Finished(IF q.credits THEN earned ELSE 0, 0)]
        /\ UNCHANGED <<cart, promotions, loyalty_tier, now, store_open, menu,
                       input, output>>

NextLoyaltyRace ==
    \/ \E p \in Procs, points \in PointsRequests : redeem_begin(p, 1, points)
    \/ \E p \in Procs : redeem_commit(p)
    \/ \E p \in Procs : complete_begin(p, 11, 1)
    \/ \E p \in Procs : complete_commit(p)

SpecLoyaltyRace == InitLoyaltyRace /\ [][NextLoyaltyRace]_vars

\* C30: when the requests have finished, the customer's balance is the
\* balance before them, plus the points credited, minus the points of the
\* redemptions that succeeded.
C30_PointsConserved ==
    (\A p \in Procs : req[p].pc = "done")
    => loyalty_points[1] =
          input.loyalty_points
          + SumOver(Procs, [p \in Procs |-> req[p].credited])
          - SumOver(Procs, [p \in Procs |-> req[p].redeemed])

-----------------------------------------------------------------------------
(* Points earned on discounted orders and spent: SpecPoints *)

NextPoints ==
    \/ \E code \in Codes, form \in ShopForms : edit_promotion(code, form)
    \/ \E r \in ShopCheckouts :
          process_checkout(r.user_id, r.form_ok, r.payment_method,
                           r.coupon_code, r.collides)
    \/ \E d \in DeliveryPersons : assign_order(d, 1)
    \/ \E d \in DeliveryPersons : CompletionWithin(1) /\ complete_delivery(d, 1)
    \/ \E u \in AppCustomers, points \in PointsRequests :
          redeem_loyalty_points(u, points)

SpecPoints == InitPayment /\ [][NextPoints]_vars

\* C28: after any sequence of delivery completions and redemptions every
\* user's loyalty balance is a non-negative integer.
C28_NonNegativeBalance ==
    \A u \in Customers : loyalty_points[u] \in Nat

-----------------------------------------------------------------------------
(* Direct calls of the pure functions: SpecPure *)

\* Subtotals on both sides of every delivery threshold, and beyond.
PureSubtotals ==
    {0, 9990, Rs(100), 14990, Rs(150), 19990, Rs(200), Rs(250), Rs(400)}

\* A discount value is a percentage or an amount of paise, by the kind.
PureDiscountValues == {0, 20, 150, Rs(50), Rs(300)}

PurePromotions ==
    [discount_type    : {"percentage", "fixed"},
     discount_value   : PureDiscountValues,
     min_order_amount : {0, Rs(200)},
     max_discount     : {None, Some(0), Some(Rs(30))},
     usage_limit      : {None, Some(0), Some(1)},
     used_count       : 0..MaxUsed,
     is_active        : BOOLEAN,
     expires_at       : {None, Some(0), Some(1)}]

InitIdle ==
    /\ store_open = TRUE
    /\ menu = << >>
    /\ cart = << >>
    /\ promotions = << >>
    /\ orders = << >>
    /\ loyalty_points = << >>
    /\ loyalty_tier = << >>
    /\ req = << >>

InitPure ==
    /\ InitIdle
    /\ now \in 0..MaxNow
    /\ input \in [promotion : PurePromotions, subtotal : PureSubtotals]
    /\ output = NoCall

UnchangedPure ==
    UNCHANGED <<now, store_open, menu, cart, promotions, orders,
                loyalty_points, loyalty_tier, req, input>>

CallDeliveryCharges ==
    /\ output = NoCall
    /\ output' = [fn |-> "calculate_delivery_charges",
                  value |-> calculate_delivery_charges(input.subtotal)]
    /\ UnchangedPure

CallIsValid ==
    /\ output = NoCall
    /\ output' = [fn |-> "is_valid",
                  value |-> IF is_valid(input.promotion, now) THEN 1 ELSE 0]
    /\ UnchangedPure

CallCalculateDiscount ==
    /\ output = NoCall
    /\ output' = [fn |-> "calculate_discount",
                  value |-> calculate_discount(input.promotion,
                                               input.subtotal, now)]
    /\ UnchangedPure

NextPure == CallDeliveryCharges \/ CallIsValid \/ CallCalculateDiscount

SpecPure == InitPure /\ [][NextPure]_vars

-----------------------------------------------------------------------------
(* Properties of the pure functions, under SpecPure *)

\* C1: calculate_delivery_charges(s) is 0 for s >= 200, 15 for 150 <= s < 200
\* and 25 for every s < 150, the subtotals below 100 included.
C1_DeliveryCharges ==
    output.fn = "calculate_delivery_charges" =>
        LET s == input.subtotal
            c == output.value
        IN  /\ (s >= Rs(200) => c = 0)
            /\ (Rs(150) <= s /\ s < Rs(200) => c = Rs(15))
            /\ (s < Rs(150) => c = Rs(25))

C1_Witness ==
    /\ output.fn = "calculate_delivery_charges"
    /\ input.subtotal < Rs(100)
    /\ output.value = Rs(25)

\* C4: a fixed promotion that is valid, on a subtotal s that reaches its
\* minimum order amount, discounts min(value, s), which is at most s; a
\* promotion that is not valid, or a subtotal below the minimum, discounts 0.
C4_FixedDiscount ==
    (output.fn = "calculate_discount" /\ input.promotion.discount_type = "fixed") =>
        LET p == input.promotion
            s == input.subtotal
            d == output.value
        IN  IF is_valid(p, now) /\ s >= p.min_order_amount
            THEN d = Min(p.discount_value, s) /\ d <= s
            ELSE d = 0

C4_Witness ==
    /\ output.fn = "calculate_discount"
    /\ input.promotion.discount_type = "fixed"
    /\ is_valid(input.promotion, now)
    /\ input.subtotal >= input.promotion.min_order_amount
    /\ input.promotion.discount_value > input.subtotal
    /\ output.value = input.subtotal
    /\ input.subtotal > 0

\* C5: a valid percentage promotion of p percent, on a subtotal s that reaches
\* its minimum order amount, discounts min(s * p / 100, c) whenever a cap c is
\* set, whatever c is (0 included), and s * p / 100 when no cap is set.
C5_PercentageDiscount ==
    (/\ output.fn = "calculate_discount"
     /\ input.promotion.discount_type = "percentage"
     /\ is_valid(input.promotion, now)
     /\ input.subtotal >= input.promotion.min_order_amount) =>
        LET p == input.promotion
            pct == (input.subtotal * p.discount_value) \div 100
        IN  output.value = IF IsNone(p.max_discount)
                           THEN pct
                           ELSE Min(pct, Val(p.max_discount))

\* C6: is_valid is true exactly when the promotion is active, has no expiry
\* or has not passed it, and has no usage limit or used_count below it; so a
\* promotion with used_count = usage_limit is invalid, for a limit of 0 too.
C6_IsValid ==
    output.fn = "is_valid" =>
        LET p == input.promotion
        IN  (output.value = 1) <=>
                /\ p.is_active
                /\ (IsNone(p.expires_at) \/ now <= Val(p.expires_at))
                /\ (IsNone(p.usage_limit) \/ p.used_count < Val(p.usage_limit))

====
